---- MODULE Spec2Model ----
(***************************************************************************)
(* Model of fee_calculator_page (src/app/app.py, lines 277-347): the fee   *)
(* impact projection of the advisor-decoder application.                   *)
(*                                                                         *)
(* Numbers.  The code computes in Python floats; the model computes the    *)
(* same expressions exactly.  A dollar amount x is held as the integer     *)
(* x * Scale, with Scale = RateDen ^ MaxYears, so that up to MaxYears      *)
(* multiplications by (1 + rate/100) lose nothing.  Rates are whole        *)
(* percents: the sliders' 0.1 and 0.05 steps are restricted to the values  *)
(* on the 1-percent grid, all of which the sliders can take.               *)
(*                                                                         *)
(* Specifications.  Spec: one session, run after run.  FairSpec: Spec with *)
(* a started run never suspended.  ScenarioSpec: the first loop at the     *)
(* widgets' default amounts and term, its value enclosed between bounds.   *)
(* ConcurrentSpec: two sessions running the page at once.                  *)
(***************************************************************************)
EXTENDS Integers, Sequences, FiniteSets, TLC

\* ---- bounds of the model (not program constants) ----
MaxInvestment == 101
MaxContribution == 1
MaxYears == 2
MaxRuns == 2

\* ---- widget ranges of the program ----
MinInvestment == 100
MinContribution == 0
MinYears == 1
SliderMaxYears == 40
MinReturn == 1
MaxReturn == 15
MinManagementFee == 0
MaxManagementFee == 3
MinOtherFees == 0
MaxOtherFees == 2

\* the values the widgets show before the user touches them
DefaultInvestment == 100000
DefaultContribution == 12000
DefaultYears == 20
DefaultReturn == 7

\* the 100 of "net_return/100" and "expected_return/100"
RateDen == 100

\* fixed-point scale of the dollar amounts
Scale == RateDen ^ MaxYears

InvestmentAmounts == MinInvestment..MaxInvestment
AnnualContributions == MinContribution..MaxContribution
YearsChoices == { y \in MinYears..SliderMaxYears : y <= MaxYears }
ExpectedReturns == MinReturn..MaxReturn
ManagementFees == MinManagementFee..MaxManagementFee
OtherFeesChoices == MinOtherFees..MaxOtherFees

VARIABLES
    investment_amount,    \* st.number_input "Initial Investment ($)", dollars
    annual_contribution,  \* st.number_input "Annual Contribution ($)", dollars
    years,                \* st.slider "Investment Period (years)"
    expected_return,      \* st.slider "Expected Annual Return (%)"
    management_fee,       \* st.slider "Management Fee (%)"
    other_fees,           \* st.slider "Other Fees (%)"
    total_fee,            \* percent
    net_return,           \* percent
    pc,                   \* position of the script run
    year,                 \* loop variable of the for loop being run
    value_with_fees,      \* dollars * Scale
    total_contributions,  \* dollars
    value_without_fees,   \* dollars * Scale
    fee_impact,           \* dollars * Scale
    metrics,              \* the st.metric calls made, in order
    years_list,
    with_fees_values,     \* sequence of dollars * Scale
    without_fees_values,  \* sequence of dollars * Scale
    val_with,             \* dollars * Scale
    val_without,          \* dollars * Scale
    assigned,             \* names of the locals of the button branch bound so far
    iterations,           \* loop bodies executed in this run, per loop
    runs,                 \* runs of the button branch completed so far, up to MaxRuns
    peer,                 \* the same page running in another user's session
    scenario,             \* the first loop run at the widgets' default amounts and term
    page,                 \* st.sidebar.selectbox "Choose a tool:" of main
    called,               \* the page functions main called in the latest script run
    form,                 \* the values of the widgets of the page shown
    screen                \* what the page shown wrote, in order

widgets == <<investment_amount, annual_contribution, years, expected_return,
             management_fee, other_fees, total_fee, net_return>>
summary == <<value_with_fees, total_contributions, value_without_fees, fee_impact>>
chart == <<years_list, with_fees_values, without_fees_values, val_with, val_without>>
app == <<page, called, form, screen>>
vars == <<widgets, summary, chart, pc, year, metrics, assigned, iterations, runs, peer,
          scenario, app>>

\* ---- the arithmetic of the page ----

\* slip: the other fees left out of the total
TotalFeeManagementOnly(mf, of) == mf

\* total_fee = management_fee + other_fees
TotalFee(mf, of) == mf + of

\* slips of the net return: the fee added instead of subtracted, the fee left out
NetReturnFeeAdded(er, tf) == er + tf
NetReturnFeeDropped(er, tf) == er

\* slip: the fee taken for a fraction and scaled to a percentage
NetReturnFeeAsFraction(er, tf) == er - tf * RateDen

\* net_return = expected_return - total_fee
NetReturn(er, tf) == er - tf

\* v * (1 + rate/100), exact while v is a multiple of RateDen
Grow(v, rate) == (v \div RateDen) * (RateDen + rate)

\* slip: the contribution added before the growth is applied
GrowthStepContributionFirst(v, rate, contribution) == Grow(v + contribution * Scale, rate)

\* slip: the contribution left out of the growth step
GrowthStepNoContribution(v, rate, contribution) == Grow(v, rate)

\* value * (1 + rate/100) + annual_contribution
GrowthStep(v, rate, contribution) == Grow(v, rate) + contribution * Scale

\* a dollar amount entered in a widget, as a value of the projection
Dollars(amount) == amount * Scale

\* slip: one iteration too many
RangeInclusive(n) == 0..n

\* range(n): the values the loop variable takes
Range(n) == 0..(n - 1)

\* round n/d (d > 0) to the nearest integer, ties to even: what the
\* format specs ",.0f" and ".1f" do to the exact quotient
RoundHalfEven(n, d) ==
    LET q == n \div d
        r == n % d
    IN  IF 2 * r < d THEN q
        ELSE IF 2 * r > d THEN q + 1
        ELSE IF q % 2 = 0 THEN q ELSE q + 1

\* f"${value:,.0f}": whole dollars
FormatDollars(v) == RoundHalfEven(v, Scale)

\* f"-{fee_impact/total_contributions*100:.1f}%": tenths of a percent
FormatDelta(impact, contributions) ==
    RoundHalfEven(impact, contributions * (Scale \div 1000))

\* the default scenario is not being followed
NoScenario == [t |-> -1]

\* no other session is open
NoPeer == [pc |-> "absent"]

NoLoops == [l \in {"with_fees", "without_fees", "chart"} |-> 0]

\* the locals of the button branch before the branch runs
Unbound ==
    /\ year = 0
    /\ value_with_fees = 0
    /\ total_contributions = 0
    /\ value_without_fees = 0
    /\ fee_impact = 0
    /\ metrics = <<>>
    /\ years_list = <<>>
    /\ with_fees_values = <<>>
    /\ without_fees_values = <<>>
    /\ val_with = 0
    /\ val_without = 0
    /\ assigned = {}
    /\ iterations = NoLoops

\* the widgets are read and the two rates derived (lines 285-295)
ReadWidgets(ia, ac, y, er, mf, of) ==
    /\ investment_amount = ia
    /\ annual_contribution = ac
    /\ years = y
    /\ expected_return = er
    /\ management_fee = mf
    /\ other_fees = of
    /\ total_fee = TotalFee(mf, of)
    /\ net_return = NetReturn(er, TotalFee(mf, of))

\* the page as the script's first run leaves it, the button not yet pressed
PageInit ==
    /\ \E ia \in InvestmentAmounts, ac \in AnnualContributions, y \in YearsChoices,
          er \in ExpectedReturns, mf \in ManagementFees, of \in OtherFeesChoices :
            ReadWidgets(ia, ac, y, er, mf, of)
    /\ pc = "button"
    /\ Unbound
    /\ runs = 0

\* the fee calculator is the page shown; the widgets of the other pages do
\* not exist while it is
CalculatorShown ==
    /\ page = "Fee Calculator"
    /\ called = <<"fee_calculator_page">>
    /\ form = [of |-> "fee_calculator_page", clicked |-> ""]
    /\ screen = <<>>

Init ==
    /\ PageInit
    /\ peer = NoPeer
    /\ scenario = NoScenario
    /\ CalculatorShown

\* ---- the steps of one script run after "Calculate Impact" is clicked ----

\* slip: the contributions counted from 0 instead of from the investment
CalculateImpactContributionsFromZero ==
    /\ pc = "button"
    /\ value_with_fees' = Dollars(investment_amount)
    /\ total_contributions' = 0
    /\ year' = 0
    /\ assigned' = assigned \cup {"value_with_fees", "total_contributions"}
    /\ pc' = "with_fees_loop"
    /\ UNCHANGED <<app, scenario, peer, runs, widgets, value_without_fees, fee_impact, chart, metrics, iterations>>

\* lines 298-301
CalculateImpact ==
    /\ pc = "button"
    /\ value_with_fees' = Dollars(investment_amount)
    /\ total_contributions' = investment_amount
    /\ year' = 0
    /\ assigned' = assigned \cup {"value_with_fees", "total_contributions"}
    /\ pc' = "with_fees_loop"
    /\ UNCHANGED <<app, scenario, peer, runs, widgets, value_without_fees, fee_impact, chart, metrics, iterations>>

\* slip: the contribution of the year not counted
WithFeesStepContributionNotCounted ==
    /\ pc = "with_fees_loop"
    /\ iterations["with_fees"] \in Range(years)
    /\ year' = iterations["with_fees"]
    /\ value_with_fees' = GrowthStep(value_with_fees, net_return, annual_contribution)
    /\ total_contributions' = total_contributions
    /\ iterations' = [iterations EXCEPT !["with_fees"] = @ + 1]
    /\ UNCHANGED <<app, scenario, peer, runs, widgets, value_without_fees, fee_impact, chart, metrics, assigned, pc>>

\* lines 303-305, one iteration
WithFeesStep ==
    /\ pc = "with_fees_loop"
    /\ iterations["with_fees"] \in Range(years)
    /\ year' = iterations["with_fees"]
    /\ value_with_fees' = GrowthStep(value_with_fees, net_return, annual_contribution)
    /\ total_contributions' = total_contributions + annual_contribution
    /\ iterations' = [iterations EXCEPT !["with_fees"] = @ + 1]
    /\ UNCHANGED <<app, scenario, peer, runs, widgets, value_without_fees, fee_impact, chart, metrics, assigned, pc>>

\* line 308, once the first loop is exhausted
WithoutFeesStart ==
    /\ pc = "with_fees_loop"
    /\ iterations["with_fees"] \notin Range(years)
    /\ value_without_fees' = Dollars(investment_amount)
    /\ assigned' = assigned \cup {"value_without_fees"}
    /\ pc' = "without_fees_loop"
    /\ UNCHANGED <<app, scenario, peer, runs, widgets, year, value_with_fees, total_contributions, fee_impact,
                   chart, metrics, iterations>>

\* lines 309-310, one iteration
WithoutFeesStep ==
    /\ pc = "without_fees_loop"
    /\ iterations["without_fees"] \in Range(years)
    /\ year' = iterations["without_fees"]
    /\ value_without_fees' = GrowthStep(value_without_fees, expected_return, annual_contribution)
    /\ iterations' = [iterations EXCEPT !["without_fees"] = @ + 1]
    /\ UNCHANGED <<app, scenario, peer, runs, widgets, value_with_fees, total_contributions, fee_impact, chart,
                   metrics, assigned, pc>>

\* slip: the cost of fees taken against the amount invested
FeeImpactAgainstPrincipal ==
    /\ pc = "without_fees_loop"
    /\ iterations["without_fees"] \notin Range(years)
    /\ fee_impact' = value_without_fees - Dollars(investment_amount)
    /\ assigned' = assigned \cup {"fee_impact"}
    /\ pc' = "metrics"
    /\ UNCHANGED <<app, scenario, peer, runs, widgets, year, value_with_fees, total_contributions,
                   value_without_fees, chart, metrics, iterations>>

\* slip: the difference taken the wrong way round
FeeImpactReversed ==
    /\ pc = "without_fees_loop"
    /\ iterations["without_fees"] \notin Range(years)
    /\ fee_impact' = value_with_fees - value_without_fees
    /\ assigned' = assigned \cup {"fee_impact"}
    /\ pc' = "metrics"
    /\ UNCHANGED <<app, scenario, peer, runs, widgets, year, value_with_fees, total_contributions,
                   value_without_fees, chart, metrics, iterations>>

\* line 312
FeeImpact ==
    /\ pc = "without_fees_loop"
    /\ iterations["without_fees"] \notin Range(years)
    /\ fee_impact' = value_without_fees - value_with_fees
    /\ assigned' = assigned \cup {"fee_impact"}
    /\ pc' = "metrics"
    /\ UNCHANGED <<app, scenario, peer, runs, widgets, year, value_with_fees, total_contributions,
                   value_without_fees, chart, metrics, iterations>>

\* lines 315-323: the three metrics; the third divides by total_contributions
DisplayMetrics ==
    /\ pc = "metrics"
    /\ IF total_contributions = 0
       THEN /\ metrics' = <<[label |-> "Value with Fees",
                             value |-> FormatDollars(value_with_fees)],
                            [label |-> "Value without Fees",
                             value |-> FormatDollars(value_without_fees)]>>
            /\ pc' = "ZeroDivisionError"
       ELSE /\ metrics' = <<[label |-> "Value with Fees",
                             value |-> FormatDollars(value_with_fees)],
                            [label |-> "Value without Fees",
                             value |-> FormatDollars(value_without_fees)],
                            [label |-> "Cost of Fees",
                             value |-> FormatDollars(fee_impact),
                             delta |-> FormatDelta(fee_impact, total_contributions)]>>
            /\ pc' = "visualization"
    /\ UNCHANGED <<app, scenario, peer, runs, widgets, year, summary, chart, assigned, iterations>>

\* slip: the first contribution already counted in the starting point
ChartStartWithContribution ==
    /\ pc = "visualization"
    /\ years_list' = [i \in 1..(years + 1) |-> i - 1]
    /\ val_with' = Dollars(investment_amount) + annual_contribution * Scale
    /\ val_without' = Dollars(investment_amount) + annual_contribution * Scale
    /\ with_fees_values' = <<val_with'>>
    /\ without_fees_values' = <<val_without'>>
    /\ assigned' = assigned \cup {"years_list", "with_fees_values",
                                  "without_fees_values", "val_with", "val_without"}
    /\ pc' = "chart_loop"
    /\ UNCHANGED <<app, scenario, peer, runs, widgets, year, summary, metrics, iterations>>

\* lines 326-334
ChartStart ==
    /\ pc = "visualization"
    /\ years_list' = [i \in 1..(years + 1) |-> i - 1]
    /\ val_with' = Dollars(investment_amount)
    /\ val_without' = Dollars(investment_amount)
    /\ with_fees_values' = <<Dollars(investment_amount)>>
    /\ without_fees_values' = <<Dollars(investment_amount)>>
    /\ assigned' = assigned \cup {"years_list", "with_fees_values",
                                  "without_fees_values", "val_with", "val_without"}
    /\ pc' = "chart_loop"
    /\ UNCHANGED <<app, scenario, peer, runs, widgets, year, summary, metrics, iterations>>

\* slip: the net return used for both series
ChartStepNetInBoth ==
    /\ pc = "chart_loop"
    /\ iterations["chart"] \in Range(years)
    /\ year' = iterations["chart"]
    /\ val_with' = GrowthStep(val_with, net_return, annual_contribution)
    /\ val_without' = GrowthStep(val_without, net_return, annual_contribution)
    /\ with_fees_values' = Append(with_fees_values, val_with')
    /\ without_fees_values' = Append(without_fees_values, val_without')
    /\ iterations' = [iterations EXCEPT !["chart"] = @ + 1]
    /\ UNCHANGED <<app, scenario, peer, runs, widgets, summary, years_list, metrics, assigned, pc>>

\* lines 336-340, one iteration
ChartStep ==
    /\ pc = "chart_loop"
    /\ iterations["chart"] \in Range(years)
    /\ year' = iterations["chart"]
    /\ val_with' = GrowthStep(val_with, net_return, annual_contribution)
    /\ val_without' = GrowthStep(val_without, expected_return, annual_contribution)
    /\ with_fees_values' = Append(with_fees_values, val_with')
    /\ without_fees_values' = Append(without_fees_values, val_without')
    /\ iterations' = [iterations EXCEPT !["chart"] = @ + 1]
    /\ UNCHANGED <<app, scenario, peer, runs, widgets, summary, years_list, metrics, assigned, pc>>

\* lines 342-347: the chart is built from the three lists and drawn
DrawChart ==
    /\ pc = "chart_loop"
    /\ iterations["chart"] \notin Range(years)
    /\ pc' = "done"
    /\ runs' = IF runs < MaxRuns THEN runs + 1 ELSE runs
    /\ UNCHANGED <<app, scenario, peer, widgets, year, summary, chart, metrics, assigned, iterations>>

\* the values a widget lets the user choose
Choices(widget) ==
    CASE widget = "investment_amount" -> InvestmentAmounts
      [] widget = "annual_contribution" -> AnnualContributions
      [] widget = "years" -> YearsChoices
      [] widget = "expected_return" -> ExpectedReturns
      [] widget = "management_fee" -> ManagementFees
      [] widget = "other_fees" -> OtherFeesChoices

WidgetNames == {"investment_amount", "annual_contribution", "years",
                "expected_return", "management_fee", "other_fees"}

\* the value a widget returns in the run that follows a change of `changed`
WidgetValue(widget, changed, v, old) == IF widget = changed THEN v ELSE old

\* slip: the loop counts kept in state that outlives a run
RerunKeepingLoopCounts ==
    /\ pc \in {"button", "done"}
    /\ \E w \in WidgetNames : \E v \in Choices(w) :
        LET mf == WidgetValue("management_fee", w, v, management_fee)
            of == WidgetValue("other_fees", w, v, other_fees)
            er == WidgetValue("expected_return", w, v, expected_return)
        IN  /\ investment_amount' = WidgetValue("investment_amount", w, v, investment_amount)
            /\ annual_contribution' = WidgetValue("annual_contribution", w, v, annual_contribution)
            /\ years' = WidgetValue("years", w, v, years)
            /\ expected_return' = er
            /\ management_fee' = mf
            /\ other_fees' = of
            /\ total_fee' = TotalFee(mf, of)
            /\ net_return' = NetReturn(er, TotalFee(mf, of))
    /\ pc' = "button"
    /\ year' = 0
    /\ value_with_fees' = 0
    /\ total_contributions' = 0
    /\ value_without_fees' = 0
    /\ fee_impact' = 0
    /\ metrics' = <<>>
    /\ years_list' = <<>>
    /\ with_fees_values' = <<>>
    /\ without_fees_values' = <<>>
    /\ val_with' = 0
    /\ val_without' = 0
    /\ assigned' = {}
    /\ iterations' = iterations
    /\ UNCHANGED <<app, scenario, peer, runs>>

\* the user changes one widget: the script runs again from the top with the
\* button not pressed, lines 285-295 are executed and the branch of line 298
\* is skipped, so nothing of an earlier run is shown any more
Rerun ==
    /\ pc \in {"button", "done"}
    /\ \E w \in WidgetNames : \E v \in Choices(w) :
        LET mf == WidgetValue("management_fee", w, v, management_fee)
            of == WidgetValue("other_fees", w, v, other_fees)
            er == WidgetValue("expected_return", w, v, expected_return)
        IN  /\ investment_amount' = WidgetValue("investment_amount", w, v, investment_amount)
            /\ annual_contribution' = WidgetValue("annual_contribution", w, v, annual_contribution)
            /\ years' = WidgetValue("years", w, v, years)
            /\ expected_return' = er
            /\ management_fee' = mf
            /\ other_fees' = of
            /\ total_fee' = TotalFee(mf, of)
            /\ net_return' = NetReturn(er, TotalFee(mf, of))
    /\ pc' = "button"
    /\ year' = 0
    /\ value_with_fees' = 0
    /\ total_contributions' = 0
    /\ value_without_fees' = 0
    /\ fee_impact' = 0
    /\ metrics' = <<>>
    /\ years_list' = <<>>
    /\ with_fees_values' = <<>>
    /\ without_fees_values' = <<>>
    /\ val_with' = 0
    /\ val_without' = 0
    /\ assigned' = {}
    /\ iterations' = NoLoops
    /\ UNCHANGED <<app, scenario, peer, runs>>

Next ==
    \/ CalculateImpact
    \/ WithFeesStep
    \/ WithoutFeesStart
    \/ WithoutFeesStep
    \/ FeeImpact
    \/ DisplayMetrics
    \/ ChartStart
    \/ ChartStep
    \/ DrawChart
    \/ Rerun

Spec == Init /\ [][Next]_vars

\* the value after n passes of a loop body "v = v * (1 + rate/100) + contribution"
RECURSIVE Iterate(_, _, _, _)
Iterate(v, rate, contribution, n) ==
    IF n = 0 THEN v
    ELSE Iterate((v \div RateDen) * (RateDen + rate) + contribution * Scale,
                 rate, contribution, n - 1)

\* the closed-form projection described beside the iterative one:
\* finalValue = principal * (1 + netReturnPct/100) ** periods
ClosedForm(principal, rate, periods) ==
    principal * (Scale \div (RateDen ^ periods)) * ((RateDen + rate) ^ periods)

\* the steps the interpreter takes by itself once a run has started
RunStep ==
    \/ WithFeesStep
    \/ WithoutFeesStart
    \/ WithoutFeesStep
    \/ FeeImpact
    \/ DisplayMetrics
    \/ ChartStart
    \/ ChartStep
    \/ DrawChart

\* a started run is not suspended: the function has no await, no lock and
\* no blocking call between line 298 and line 347
FairSpec == Init /\ [][Next]_vars /\ WF_vars(RunStep)

\* ---- the first loop at the default amounts and term ----
\* Twenty multiplications by 1.06 need forty decimals, more than the
\* fixed-point values above can hold.  Here the value of the loop variable is
\* enclosed instead: lo and hi are amounts in hundredths of a dollar with
\* lo <= value <= hi, each step rounding lo down and hi up.  The growth factor
\* 1 + rate/100 is positive for every rate of the sliders, so the bounds keep
\* their order.

\* the largest integer <= v * (1 + rate/100)
FloorGrow(v, rate) ==
    v + (v \div RateDen) * rate + ((v % RateDen) * rate) \div RateDen

\* the smallest integer >= v * (1 + rate/100)
CeilGrow(v, rate) ==
    v + (v \div RateDen) * rate - ((-((v % RateDen) * rate)) \div RateDen)

\* slip: the contribution added before the growth is applied
EncloseStepContributionFirst(lo, hi, rate, contribution) ==
    [lo |-> FloorGrow(lo + contribution * RateDen, rate),
     hi |-> CeilGrow(hi + contribution * RateDen, rate)]

\* one pass of "value_with_fees = value_with_fees * (1 + net_return/100)
\* + annual_contribution" on the enclosure
EncloseStep(lo, hi, rate, contribution) ==
    [lo |-> FloorGrow(lo, rate) + contribution * RateDen,
     hi |-> CeilGrow(hi, rate) + contribution * RateDen]

\* a page with nothing running on it
QuietPage ==
    /\ PageInit
    /\ investment_amount = MinInvestment
    /\ annual_contribution = MinContribution
    /\ years = MinYears
    /\ expected_return = MinReturn
    /\ management_fee = MinManagementFee
    /\ other_fees = MinOtherFees

\* lines 285-301 with the default investment, contribution, term and
\* return, and any fees
ScenarioInit ==
    /\ QuietPage
    /\ peer = NoPeer
    /\ CalculatorShown
    /\ \E mf \in ManagementFees, of \in OtherFeesChoices :
         scenario = [investment_amount |-> DefaultInvestment,
                     annual_contribution |-> DefaultContribution,
                     years |-> DefaultYears,
                     expected_return |-> DefaultReturn,
                     management_fee |-> mf,
                     other_fees |-> of,
                     net_return |-> NetReturn(DefaultReturn, TotalFee(mf, of)),
                     t |-> 0,
                     lo |-> DefaultInvestment * RateDen,
                     hi |-> DefaultInvestment * RateDen]

\* lines 303-304, one iteration
ScenarioStep ==
    /\ scenario.t \in Range(scenario.years)
    /\ LET next == EncloseStep(scenario.lo, scenario.hi, scenario.net_return,
                               scenario.annual_contribution)
       IN  scenario' = [scenario EXCEPT !.t = @ + 1, !.lo = next.lo, !.hi = next.hi]
    /\ UNCHANGED <<app, peer, runs, widgets, summary, chart, pc, year, metrics, assigned,
                   iterations>>

ScenarioNext == ScenarioStep

ScenarioSpec == ScenarioInit /\ [][ScenarioNext]_vars

\* ---- two sessions at once ----
\* Streamlit runs the script once per session, each run in a thread of its
\* own; fee_calculator_page keeps everything it computes in locals of its
\* own call.  The second session is the record `peer`, with one field per
\* widget value and local of its call.

\* the end points of a range
Ends(lowest, highest) == {lowest, highest}

\* the other session after lines 285-295, the button not yet pressed
PeerStart(ia, ac, y, er, mf, of) ==
    [pc |-> "button",
     investment_amount |-> ia, annual_contribution |-> ac, years |-> y,
     expected_return |-> er, management_fee |-> mf, other_fees |-> of,
     total_fee |-> TotalFee(mf, of),
     net_return |-> NetReturn(er, TotalFee(mf, of)),
     year |-> 0, iterations |-> NoLoops,
     value_with_fees |-> 0, total_contributions |-> 0,
     value_without_fees |-> 0, fee_impact |-> 0, metrics |-> <<>>,
     years_list |-> <<>>, with_fees_values |-> <<>>, without_fees_values |-> <<>>,
     val_with |-> 0, val_without |-> 0]

\* the next step of a session s, lines 298-347
SessionStep(s) ==
    CASE s.pc = "button" ->
           [s EXCEPT !.value_with_fees = Dollars(s.investment_amount),
                     !.total_contributions = s.investment_amount,
                     !.pc = "with_fees_loop"]
      [] s.pc = "with_fees_loop" ->
           IF s.iterations["with_fees"] \in Range(s.years)
           THEN [s EXCEPT !.year = s.iterations["with_fees"],
                          !.value_with_fees =
                              GrowthStep(s.value_with_fees, s.net_return,
                                         s.annual_contribution),
                          !.total_contributions = @ + s.annual_contribution,
                          !.iterations["with_fees"] = @ + 1]
           ELSE [s EXCEPT !.value_without_fees = Dollars(s.investment_amount),
                          !.pc = "without_fees_loop"]
      [] s.pc = "without_fees_loop" ->
           IF s.iterations["without_fees"] \in Range(s.years)
           THEN [s EXCEPT !.year = s.iterations["without_fees"],
                          !.value_without_fees =
                              GrowthStep(s.value_without_fees, s.expected_return,
                                         s.annual_contribution),
                          !.iterations["without_fees"] = @ + 1]
           ELSE [s EXCEPT !.fee_impact = s.value_without_fees - s.value_with_fees,
                          !.pc = "metrics"]
      [] s.pc = "metrics" ->
           IF s.total_contributions = 0
           THEN [s EXCEPT !.metrics =
                              <<[label |-> "Value with Fees",
                                 value |-> FormatDollars(s.value_with_fees)],
                                [label |-> "Value without Fees",
                                 value |-> FormatDollars(s.value_without_fees)]>>,
                          !.pc = "ZeroDivisionError"]
           ELSE [s EXCEPT !.metrics =
                              <<[label |-> "Value with Fees",
                                 value |-> FormatDollars(s.value_with_fees)],
                                [label |-> "Value without Fees",
                                 value |-> FormatDollars(s.value_without_fees)],
                                [label |-> "Cost of Fees",
                                 value |-> FormatDollars(s.fee_impact),
                                 delta |-> FormatDelta(s.fee_impact,
                                                       s.total_contributions)]>>,
                          !.pc = "visualization"]
      [] s.pc = "visualization" ->
           [s EXCEPT !.years_list = [i \in 1..(s.years + 1) |-> i - 1],
                     !.val_with = Dollars(s.investment_amount),
                     !.val_without = Dollars(s.investment_amount),
                     !.with_fees_values = <<Dollars(s.investment_amount)>>,
                     !.without_fees_values = <<Dollars(s.investment_amount)>>,
                     !.pc = "chart_loop"]
      [] s.pc = "chart_loop" ->
           IF s.iterations["chart"] \in Range(s.years)
           THEN LET with == GrowthStep(s.val_with, s.net_return, s.annual_contribution)
                    without == GrowthStep(s.val_without, s.expected_return,
                                          s.annual_contribution)
                IN  [s EXCEPT !.year = s.iterations["chart"],
                              !.val_with = with,
                              !.val_without = without,
                              !.with_fees_values = Append(@, with),
                              !.without_fees_values = Append(@, without),
                              !.iterations["chart"] = @ + 1]
           ELSE [s EXCEPT !.pc = "done"]

\* slip: the contributions totalled in a variable of the module, which the
\* sessions of one server process would share
PeerStepSharedContributions ==
    /\ peer.pc \in {"button", "with_fees_loop", "without_fees_loop", "metrics",
                    "visualization", "chart_loop"}
    /\ peer' = SessionStep(peer)
    /\ total_contributions' =
         IF peer.pc = "with_fees_loop" /\ peer.iterations["with_fees"] \in Range(peer.years)
         THEN total_contributions + peer.annual_contribution
         ELSE total_contributions
    /\ UNCHANGED <<app, scenario, runs, widgets, value_with_fees, value_without_fees,
                   fee_impact, chart, pc, year, metrics, assigned, iterations>>

\* the other session takes its next step; the locals of this session are
\* not its to touch
PeerStep ==
    /\ peer.pc \in {"button", "with_fees_loop", "without_fees_loop", "metrics",
                    "visualization", "chart_loop"}
    /\ peer' = SessionStep(peer)
    /\ UNCHANGED <<app, scenario, runs, widgets, summary, chart, pc, year, metrics,
                   assigned, iterations>>

\* two sessions, each with its own inputs: amounts and terms within the
\* bounds, rates at the end points of their sliders
ConcurrentInit ==
    /\ PageInit
    /\ expected_return \in Ends(MinReturn, MaxReturn)
    /\ management_fee \in Ends(MinManagementFee, MaxManagementFee)
    /\ other_fees \in Ends(MinOtherFees, MaxOtherFees)
    /\ \E ia \in InvestmentAmounts, ac \in AnnualContributions, y \in YearsChoices,
          er \in Ends(MinReturn, MaxReturn),
          mf \in Ends(MinManagementFee, MaxManagementFee),
          of \in Ends(MinOtherFees, MaxOtherFees) :
            peer = PeerStart(ia, ac, y, er, mf, of)
    /\ scenario = NoScenario
    /\ CalculatorShown

ConcurrentNext ==
    \/ CalculateImpact
    \/ RunStep
    \/ PeerStep

ConcurrentSpec == ConcurrentInit /\ [][ConcurrentNext]_vars

\* what a run with the given inputs computes when it runs alone
ResultAlone(ia, ac, y, er, mf, of) ==
    LET net == er - (mf + of)
        withFees == Iterate(ia * Scale, net, ac, y)
        withoutFees == Iterate(ia * Scale, er, ac, y)
    IN  [value_with_fees |-> withFees,
         value_without_fees |-> withoutFees,
         total_contributions |-> ia + ac * y,
         fee_impact |-> withoutFees - withFees,
         with_fees_values |-> [i \in 1..(y + 1) |-> Iterate(ia * Scale, net, ac, i - 1)],
         without_fees_values |-> [i \in 1..(y + 1) |-> Iterate(ia * Scale, er, ac, i - 1)]]

\* ---- the other pages ----
\* Every event of the user (a choice in the sidebar, a tick, a click) makes
\* the script run again from the top: main reads the sidebar and calls the
\* page, and the page reads its widgets and writes what it shows.  An action
\* below is one such event together with the run it causes.  Labels are
\* written without their emoji.  What a page writes is kept as a sequence
\* of items; a list of fixed texts is kept as the number of its bullets.

calculator == <<widgets, summary, chart, pc, year, metrics, assigned, iterations, runs,
                peer, scenario>>

Header(text) == [item |-> "header", text |-> text]
Subheader(text) == [item |-> "subheader", text |-> text]
Bullets(n) == [item |-> "bullets", count |-> n]
Box(text) == [item |-> "box", text |-> text]

\* ---- main (lines 780-806) ----

\* the options of the sidebar's selectbox, line 787
NavigationOptions ==
    <<"Quick Start", "Document Analysis", "Fee Calculator", "Conflict Checker",
      "Compensation Database", "Advisor-Speak Decoder", "Sales Tactics Decoder",
      "Meeting Prep Tool">>

\* slip: a branch copied without changing the call
DispatchCopiedBranch(option) ==
    IF option = "Quick Start" THEN <<"quick_start_page">>
    ELSE IF option = "Document Analysis" THEN <<"document_analysis_page">>
    ELSE IF option = "Fee Calculator" THEN <<"fee_calculator_page">>
    ELSE IF option = "Conflict Checker" THEN <<"conflict_checker_page">>
    ELSE IF option = "Compensation Database" THEN <<"compensation_database_page">>
    ELSE IF option = "Advisor-Speak Decoder" THEN <<"compensation_database_page">>
    ELSE IF option = "Sales Tactics Decoder" THEN <<"sales_tactics_page">>
    ELSE IF option = "Meeting Prep Tool" THEN <<"meeting_prep_page">>
    ELSE <<>>

\* the if/elif chain of lines 791-806: the page functions called for an option
Dispatch(option) ==
    IF option = "Quick Start" THEN <<"quick_start_page">>
    ELSE IF option = "Document Analysis" THEN <<"document_analysis_page">>
    ELSE IF option = "Fee Calculator" THEN <<"fee_calculator_page">>
    ELSE IF option = "Conflict Checker" THEN <<"conflict_checker_page">>
    ELSE IF option = "Compensation Database" THEN <<"compensation_database_page">>
    ELSE IF option = "Advisor-Speak Decoder" THEN <<"glossary_page">>
    ELSE IF option = "Sales Tactics Decoder" THEN <<"sales_tactics_page">>
    ELSE IF option = "Meeting Prep Tool" THEN <<"meeting_prep_page">>
    ELSE <<>>

\* ---- meeting_prep_page (lines 1-102) ----

\* the options of "What type of meeting?", lines 5-6
MeetingTypes ==
    <<"First meeting with new advisor", "Annual review", "Discussing new investment",
      "Reviewing poor performance", "Fee discussion">>

\* the two "Annual fee (%)" inputs, in hundredths of a percent: range,
\* defaults and steps of lines 48 and 53
MinAnnualFee == 0
MaxAnnualFee == 500
RecFeeDefault == 100
RecFeeStep == 10
AltFeeDefault == 5
AltFeeStep == 1

\* the fees tried: the defaults, the ends of the range, one step beside each
RecFees == {MinAnnualFee, RecFeeDefault, RecFeeDefault + RecFeeStep, MaxAnnualFee}
AltFees == {MinAnnualFee, AltFeeDefault, AltFeeDefault + AltFeeStep, MaxAnnualFee}

\* "investment = 100000  # Example amount", line 57
ExampleInvestment == 100000

\* lines 57-62: investment * (rec_fee - alt_fee) / 100 and ten times that,
\* in whole dollars; the fees are in hundredths of a percent
CompareCosts(rec_fee, alt_fee) ==
    LET annual_diff == (ExampleInvestment \div (RateDen * RateDen)) * (rec_fee - alt_fee)
        ten_year_diff == annual_diff * 10
    IN  <<[item |-> "line", text |-> "Annual cost difference", value |-> annual_diff],
          [item |-> "line", text |-> "10-year cost difference", value |-> ten_year_diff]>>

\* the type-specific part, lines 8-83
MeetingBranch(f) ==
    IF f.meeting_type = "First meeting with new advisor"
    THEN <<Subheader("Essential Questions for First Meeting"), Bullets(8),
           Subheader("Notes Section")>>
    ELSE IF f.meeting_type = "Discussing new investment"
    THEN <<Subheader("Questions About New Investment"), Bullets(8),
           Subheader("Investment Comparison")>>
         \o (IF f.clicked = "Compare Costs" THEN CompareCosts(f.rec_fee, f.alt_fee)
             ELSE <<>>)
    ELSE IF f.meeting_type = "Fee discussion"
    THEN <<Subheader("Fee Negotiation Prep"), Bullets(4), Bullets(5)>>
    ELSE <<>>

\* the part common to all meeting types, lines 85-102
RedFlags ==
    <<Subheader("Watch Out For These Red Flags"), Bullets(6), Box("Remember")>>

\* slip: the common part indented into the chain, as the branch of the
\* remaining types
MeetingPrepRedFlagsAsElse(f) ==
    <<Header("Meeting Prep Tool")>>
    \o (IF MeetingBranch(f) = <<>> THEN RedFlags ELSE MeetingBranch(f))

\* what meeting_prep_page writes
MeetingPrep(f) ==
    <<Header("Meeting Prep Tool")>> \o MeetingBranch(f) \o RedFlags

\* ---- conflict_checker_page (lines 350-406) ----

\* the keys of the conflicts dict in its order, lines 357-366
Conflicts ==
    <<"Commission-based compensation", "Proprietary product sales",
      "Revenue sharing agreements", "Sales contests/incentives", "Third-party payments",
      "Dual registration (broker/advisor)", "Limited product offerings",
      "High-fee product emphasis">>

\* lines 393-399
Recommendations ==
    <<"Request full disclosure of compensation structure",
      "Ask about fiduciary responsibility",
      "Compare recommendations with independent sources",
      "Consider fee-only financial advisors",
      "Get second opinions on major decisions">>

\* the thresholds of lines 379 and 383
LowRiskMax == 2
MediumRiskMax == 4

Min(a, b) == IF a <= b THEN a ELSE b

\* the loop of lines 370-373: the checked conflicts in the dict's order
SelectedConflicts(checked) == SelectSeq(Conflicts, LAMBDA c : c \in checked)

\* slip: thresholds tested with < instead of <=
RiskLevelStrict(risk_level) ==
    IF risk_level < LowRiskMax THEN "Low Risk Level"
    ELSE IF risk_level < MediumRiskMax THEN "Medium Risk Level"
    ELSE "High Risk Level"

\* the chain of lines 379-390
RiskLevel(risk_level) ==
    IF risk_level <= LowRiskMax THEN "Low Risk Level"
    ELSE IF risk_level <= MediumRiskMax THEN "Medium Risk Level"
    ELSE "High Risk Level"

\* slip: the slice without the + 1
RecommendedNoExtra(selected_conflicts) ==
    SubSeq(Recommendations, 1, Min(Len(selected_conflicts), Len(Recommendations)))

\* recommendations[:min(len(selected_conflicts) + 1, len(recommendations))], line 401
Recommended(selected_conflicts) ==
    SubSeq(Recommendations, 1, Min(Len(selected_conflicts) + 1, Len(Recommendations)))

\* the branch of the "Analyze Conflicts" button, lines 376-406
ConflictAnalysis(selected_conflicts) ==
    IF selected_conflicts # <<>>
    THEN LET risk_level == Len(selected_conflicts)
         IN  <<[item |-> "risk", text |-> RiskLevel(risk_level), count |-> risk_level],
               [item |-> "actions", list |-> Recommended(selected_conflicts)]>>
    ELSE <<Box("No conflicts identified from the checklist")>>

\* what conflict_checker_page writes
ConflictChecker(f) ==
    <<Header("Conflict of Interest Checker"), Subheader("Common Conflict Indicators")>>
    \o (IF f.clicked = "Analyze Conflicts" THEN ConflictAnalysis(SelectedConflicts(f.checked))
        ELSE <<>>)

\* ---- the annuity checklist of sales_tactics_page (lines 1173-1211) ----

\* lines 1176-1187
annuity_red_flags ==
    <<"Salesperson focuses on benefits, avoids discussing fees",
      "Pressure to move money from 401k or IRA immediately",
      "Promises of guaranteed high returns",
      "Will not explain surrender charges clearly",
      "Emphasizes bonus while minimizing restrictions",
      "Claims product is just like a CD but better",
      "Refuses to provide prospectus or detailed documentation",
      "Targets recent widows, retirees, or elderly individuals",
      "Makes appointment at your home instead of office",
      "Discourages you from consulting family or other advisors">>

\* the thresholds of lines 1197 and 1202
HighRiskMin == 5
MediumRiskMin == 3

\* the loop of lines 1190-1193
SelectedFlags(flags) == SelectSeq(annuity_red_flags, LAMBDA g : g \in flags)

\* slip: the two tests in the other order
AnnuityRiskMediumFirst(selected_flags) ==
    IF selected_flags # <<>>
    THEN LET risk_level == Len(selected_flags)
         IN  <<[item |-> "risk", count |-> risk_level,
                text |-> IF risk_level >= MediumRiskMin THEN "MEDIUM RISK"
                         ELSE IF risk_level >= HighRiskMin THEN "HIGH RISK SITUATION"
                         ELSE "SOME CONCERNS"]>>
    ELSE <<>>

\* lines 1195-1211
AnnuityRisk(selected_flags) ==
    IF selected_flags # <<>>
    THEN LET risk_level == Len(selected_flags)
         IN  <<[item |-> "risk", count |-> risk_level,
                text |-> IF risk_level >= HighRiskMin THEN "HIGH RISK SITUATION"
                         ELSE IF risk_level >= MediumRiskMin THEN "MEDIUM RISK"
                         ELSE "SOME CONCERNS"]>>
    ELSE <<>>

\* what sales_tactics_page writes: of its five tabs, whose texts are
\* fixed, only the checklist is kept
SalesTactics(f) ==
    <<Header("Sales Tactics Decoder"), Subheader("Annuity Red Flags Checklist")>>
    \o AnnuityRisk(SelectedFlags(f.flags))

\* ---- document_analysis_page and analyze_fees (lines 104-217) ----

\* total_annual_cost = 2.45, line 160, in hundredths of a percent
TotalAnnualCost == 245
\* the factors 0.0002 and 0.0035 of lines 204-205, in ten-thousandths
FidelityPayRate == 2
SchwabPayRate == 35
\* line 203
MetricsThreshold == 100000
\* st.number_input "Enter investment amount ($)", line 196
MinAnalysisAmount == 1000
DefaultAnalysisAmount == 100000
\* st.slider "Investment period (years)", line 197
MinAnalysisYears == 1
MaxAnalysisYears == 30
DefaultAnalysisYears == 10

\* the costs are kept in ten-thousandths of a dollar, which makes the
\* products below exact
CostUnit == RateDen * RateDen

\* the amounts tried: the least one and those around the threshold
MaxOffset == 1
AnalysisAmounts ==
    {MinAnalysisAmount} \cup (MetricsThreshold - MaxOffset .. MetricsThreshold + MaxOffset)
AnalysisYears == MinAnalysisYears .. MaxAnalysisYears

Metric(label, value) == [item |-> "metric", text |-> label, value |-> value]

\* slip: the three metrics shown above the threshold only
AnalyzeFeesAboveOnly(amount, period) ==
    LET annual_cost == amount * TotalAnnualCost
        total_cost == annual_cost * period
    IN  <<Subheader("Fee Analysis Results"), Subheader("How Your Advisor Gets Paid"),
          Subheader("Cost Impact Analysis"),
          [item |-> "locals", investment_amount |-> amount, years |-> period,
           annual_cost |-> annual_cost, total_cost |-> total_cost]>>
        \o (IF amount > MetricsThreshold
            THEN <<Metric("Your Annual Cost", <<RoundHalfEven(annual_cost, CostUnit)>>),
                   Metric("Your Total Cost", <<RoundHalfEven(total_cost, CostUnit)>>),
                   Metric("Advisor's Annual Pay",
                          <<RoundHalfEven(amount * FidelityPayRate, CostUnit),
                            RoundHalfEven(amount * SchwabPayRate, CostUnit)>>)>>
            ELSE <<>>)
        \o <<Box("Key Insight")>>

\* analyze_fees, lines 142-217, for the values its two widgets return; the
\* item "locals" keeps the function's local variables, which are computed
\* whether or not the metrics are written
AnalyzeFees(amount, period) ==
    LET annual_cost == amount * TotalAnnualCost
        total_cost == annual_cost * period
    IN  <<Subheader("Fee Analysis Results"), Subheader("How Your Advisor Gets Paid"),
          Subheader("Cost Impact Analysis"),
          [item |-> "locals", investment_amount |-> amount, years |-> period,
           annual_cost |-> annual_cost, total_cost |-> total_cost]>>
        \o (IF amount >= MetricsThreshold
            THEN <<Metric("Your Annual Cost", <<RoundHalfEven(annual_cost, CostUnit)>>),
                   Metric("Your Total Cost", <<RoundHalfEven(total_cost, CostUnit)>>),
                   Metric("Advisor's Annual Pay",
                          <<RoundHalfEven(amount * FidelityPayRate, CostUnit),
                            RoundHalfEven(amount * SchwabPayRate, CostUnit)>>)>>
            ELSE <<>>)
        \o <<Box("Key Insight")>>

\* check_conflicts (lines 219-247) and generate_report (lines 249-275)
\* write fixed texts
CheckConflicts == <<Subheader("Conflict of Interest Analysis")>>
GenerateReport == <<Subheader("Comprehensive Analysis Report")>>

\* what document_analysis_page writes
DocumentAnalysis(f) ==
    <<Header("Document Analysis")>>
    \o (IF f.uploaded
        THEN <<Box("File uploaded successfully!")>>
             \o (IF f.clicked = "Analyze Fees" THEN AnalyzeFees(f.investment_amount, f.years)
                 ELSE <<>>)
             \o (IF f.clicked = "Check Conflicts" THEN CheckConflicts ELSE <<>>)
             \o (IF f.clicked = "Generate Report" THEN GenerateReport ELSE <<>>)
        ELSE <<>>)

\* ---- one run of the script ----

\* the widgets of a page as a first run of it finds them
FirstForm(fns) ==
    IF fns = <<>> THEN [of |-> "", clicked |-> ""]
    ELSE IF fns[1] = "meeting_prep_page"
    THEN [of |-> fns[1], clicked |-> "", meeting_type |-> MeetingTypes[1],
          rec_fee |-> RecFeeDefault, alt_fee |-> AltFeeDefault]
    ELSE IF fns[1] = "conflict_checker_page"
    THEN [of |-> fns[1], clicked |-> "", checked |-> {}]
    ELSE IF fns[1] = "sales_tactics_page"
    THEN [of |-> fns[1], clicked |-> "", flags |-> {}]
    ELSE IF fns[1] = "document_analysis_page"
    THEN [of |-> fns[1], clicked |-> "", uploaded |-> FALSE,
          investment_amount |-> DefaultAnalysisAmount, years |-> DefaultAnalysisYears]
    ELSE [of |-> fns[1], clicked |-> ""]

\* what the page functions called write, given the widgets; the pages left
\* out write fixed texts only
Written(fns, f) ==
    IF fns = <<>> THEN <<>>
    ELSE IF fns[1] = "meeting_prep_page" THEN MeetingPrep(f)
    ELSE IF fns[1] = "conflict_checker_page" THEN ConflictChecker(f)
    ELSE IF fns[1] = "sales_tactics_page" THEN SalesTactics(f)
    ELSE IF fns[1] = "document_analysis_page"
    THEN DocumentAnalysis(f)
    ELSE IF fns[1] = "quick_start_page" THEN <<Header("Quick Start Guide")>>
    ELSE IF fns[1] = "fee_calculator_page" THEN <<Header("Fee Calculator")>>
    ELSE IF fns[1] = "compensation_database_page" THEN <<Header("Compensation Database")>>
    ELSE <<Header("Advisor-Speak Decoder")>>

\* a run of the script: main calls the page for the option chosen, and the
\* page writes what its widgets, as f gives them, make it write
Run(option, f) ==
    /\ page' = option
    /\ called' = Dispatch(option)
    /\ form' = f
    /\ screen' = Written(Dispatch(option), f)
    /\ UNCHANGED calculator

\* a widget of the page shown is changed: no button is clicked in this run
Change(f) == Run(page, [f EXCEPT !.clicked = ""])

\* a button of the page shown is clicked
Click(button) == Run(page, [form EXCEPT !.clicked = button])

\* the first option of the sidebar is the one chosen when the session opens
PagesInit ==
    /\ QuietPage
    /\ peer = NoPeer
    /\ scenario = NoScenario
    /\ page = NavigationOptions[1]
    /\ called = Dispatch(page)
    /\ form = FirstForm(called)
    /\ screen = Written(called, form)

\* another option is chosen in the sidebar; the widgets of the page left
\* are gone, those of the page entered are new
Navigate ==
    \E i \in DOMAIN NavigationOptions :
        /\ NavigationOptions[i] # page
        /\ Run(NavigationOptions[i], FirstForm(Dispatch(NavigationOptions[i])))

\* "What type of meeting?" is changed; the fee inputs exist in one branch
\* only and are new whenever that branch is entered
SelectMeetingType ==
    /\ form.of = "meeting_prep_page"
    /\ \E i \in DOMAIN MeetingTypes :
        /\ MeetingTypes[i] # form.meeting_type
        /\ Change([form EXCEPT !.meeting_type = MeetingTypes[i],
                               !.rec_fee = RecFeeDefault, !.alt_fee = AltFeeDefault])

\* one of the two "Annual fee (%)" inputs is changed
SetFee ==
    /\ form.of = "meeting_prep_page"
    /\ form.meeting_type = "Discussing new investment"
    /\ \/ \E r \in RecFees \ {form.rec_fee} : Change([form EXCEPT !.rec_fee = r])
       \/ \E a \in AltFees \ {form.alt_fee} : Change([form EXCEPT !.alt_fee = a])

\* "Compare Costs" is clicked
ClickCompareCosts ==
    /\ form.of = "meeting_prep_page"
    /\ form.meeting_type = "Discussing new investment"
    /\ Click("Compare Costs")

\* one checkbox of the conflict checklist is ticked or cleared
ToggleConflict ==
    /\ form.of = "conflict_checker_page"
    /\ \E i \in DOMAIN Conflicts :
        Change([form EXCEPT !.checked =
                    IF Conflicts[i] \in @ THEN @ \ {Conflicts[i]} ELSE @ \cup {Conflicts[i]}])

\* "Analyze Conflicts" is clicked
ClickAnalyzeConflicts ==
    /\ form.of = "conflict_checker_page"
    /\ Click("Analyze Conflicts")

\* one checkbox of the annuity checklist is ticked or cleared
ToggleFlag ==
    /\ form.of = "sales_tactics_page"
    /\ \E i \in DOMAIN annuity_red_flags :
        Change([form EXCEPT !.flags =
                    IF annuity_red_flags[i] \in @ THEN @ \ {annuity_red_flags[i]}
                    ELSE @ \cup {annuity_red_flags[i]}])

\* the two widgets of analyze_fees are gone in a run that does not call it
NoAnalysis(f) ==
    [f EXCEPT !.investment_amount = DefaultAnalysisAmount, !.years = DefaultAnalysisYears]

\* a file is chosen in the uploader, or the one chosen is removed
Upload ==
    /\ form.of = "document_analysis_page"
    /\ Change(NoAnalysis([form EXCEPT !.uploaded = ~@]))

\* "Analyze Fees" is clicked: analyze_fees is called and reads its two
\* widgets, which return a value of their range
ClickAnalyzeFees ==
    /\ form.of = "document_analysis_page"
    /\ form.uploaded
    /\ \E a \in AnalysisAmounts, y \in AnalysisYears :
        Run(page, [form EXCEPT !.clicked = "Analyze Fees",
                               !.investment_amount = a, !.years = y])

\* "Check Conflicts" is clicked
ClickCheckConflicts ==
    /\ form.of = "document_analysis_page"
    /\ form.uploaded
    /\ Run(page, NoAnalysis([form EXCEPT !.clicked = "Check Conflicts"]))

\* "Generate Report" is clicked
ClickGenerateReport ==
    /\ form.of = "document_analysis_page"
    /\ form.uploaded
    /\ Run(page, NoAnalysis([form EXCEPT !.clicked = "Generate Report"]))

PagesNext ==
    \/ Navigate
    \/ SelectMeetingType
    \/ SetFee
    \/ ClickCompareCosts
    \/ ToggleConflict
    \/ ClickAnalyzeConflicts
    \/ ToggleFlag
    \/ Upload
    \/ ClickAnalyzeFees
    \/ ClickCheckConflicts
    \/ ClickGenerateReport

PagesSpec == PagesInit /\ [][PagesNext]_vars

\* ---- sanity of the fixed-point arithmetic ----

\* every division by RateDen made by Grow is exact: no step of a run rounds
ExactArithmetic ==
    /\ pc = "with_fees_loop" /\ iterations["with_fees"] \in Range(years)
         => value_with_fees % RateDen = 0
    /\ pc = "without_fees_loop" /\ iterations["without_fees"] \in Range(years)
         => value_without_fees % RateDen = 0
    /\ pc = "chart_loop" /\ iterations["chart"] \in Range(years)
         => val_with % RateDen = 0 /\ val_without % RateDen = 0

\* ---- the claims ----
\* In the claims' words: principal is investment_amount, contribution is
\* annual_contribution, periods is years, grossReturnPct is expected_return,
\* feePct is management_fee + other_fees, valueWithFees[t] is
\* with_fees_values[t + 1] and valueWithoutFees[t] is without_fees_values[t + 1]
\* (Python lists start at 0, TLA+ sequences at 1).

\* the periods of which the chart lists hold the value so far, beyond period 0
Periods == 1..(Len(with_fees_values) - 1)
PeriodsWithout == 1..(Len(without_fees_values) - 1)

\* C1: at every period t >= 1 the with-fees value is the value of period t-1
\* grown by the return net of all fees, (1 + (gross - fee)/100), plus the
\* contribution, which is added after the growth; with one period the value
\* is principal * (1 + net/100) + contribution.
C1_WithFeesRecurrence ==
    /\ \A t \in Periods :
         /\ with_fees_values[t] % RateDen = 0
         /\ with_fees_values[t + 1] =
              (with_fees_values[t] \div RateDen)
                  * (RateDen + (expected_return - (management_fee + other_fees)))
              + annual_contribution * Scale
    /\ pc = "done" /\ years = 1 =>
         with_fees_values[2] =
              investment_amount * (Scale \div RateDen)
                  * (RateDen + (expected_return - (management_fee + other_fees)))
              + annual_contribution * Scale

C1_Witness ==
    /\ pc = "done"
    /\ years = MaxYears
    /\ Len(with_fees_values) = years + 1
    /\ annual_contribution > 0
    /\ management_fee > 0
    /\ other_fees > 0

\* C2: at every period t >= 1 the without-fees value is the value of period
\* t-1 grown by the gross return, (1 + gross/100), plus the contribution; no
\* fee enters it.
C2_WithoutFeesRecurrence ==
    \A t \in PeriodsWithout :
        /\ without_fees_values[t] % RateDen = 0
        /\ without_fees_values[t + 1] =
             (without_fees_values[t] \div RateDen) * (RateDen + expected_return)
             + annual_contribution * Scale

C2_Witness ==
    /\ pc = "done"
    /\ years = MaxYears
    /\ Len(without_fees_values) = years + 1
    /\ annual_contribution > 0
    /\ management_fee + other_fees > 0
    /\ without_fees_values[years + 1] > with_fees_values[years + 1]

\* C3: the fee is never negative, and at every period of the chart the
\* with-fees value is at most the without-fees value.
C3_FeeDrag ==
    /\ management_fee + other_fees >= 0
    /\ Len(with_fees_values) = Len(without_fees_values)
    /\ \A i \in 1..Len(with_fees_values) :
         with_fees_values[i] <= without_fees_values[i]

C3_Witness ==
    /\ pc = "done"
    /\ years = MaxYears
    /\ management_fee + other_fees > expected_return
    /\ with_fees_values[years + 1] < with_fees_values[1]

\* C4: with a positive fee the with-fees value is strictly below the
\* without-fees value at every period t >= 1: the two are equal only at
\* period 0 or when the fee is 0.
C4_StrictFeeDrag ==
    \A t \in Periods :
        with_fees_values[t + 1] = without_fees_values[t + 1]
            => management_fee + other_fees = 0

C4_Witness ==
    /\ pc = "done"
    /\ years = MaxYears
    /\ management_fee + other_fees = 1
    /\ annual_contribution = 0
    /\ with_fees_values[years + 1] < without_fees_values[years + 1]

\* C5: when the projection is complete both series, and the list of years
\* they are charted against, have exactly periods + 1 entries, 0..periods.
C5_TrajectoryLength ==
    pc = "done" =>
        /\ Len(with_fees_values) = years + 1
        /\ Len(without_fees_values) = years + 1
        /\ years_list = [i \in 1..(years + 1) |-> i - 1]

C5_Witness ==
    /\ pc = "done"
    /\ years = MaxYears
    /\ Len(with_fees_values) = MaxYears + 1
    /\ Len(years_list) = MaxYears + 1

\* C6: entry 0 of both series is the principal itself, neither grown nor
\* increased by a contribution.
C6_StartsAtPrincipal ==
    /\ with_fees_values # <<>> => with_fees_values[1] = investment_amount * Scale
    /\ without_fees_values # <<>> => without_fees_values[1] = investment_amount * Scale

C6_Witness ==
    /\ pc = "done"
    /\ annual_contribution > 0
    /\ with_fees_values[1] = investment_amount * Scale
    /\ with_fees_values[2] # with_fees_values[1]

\* C7: with a fee of 0 the two series are equal entry by entry and the cost
\* of fees is 0, in the summary and as displayed.
C7_ZeroFee ==
    management_fee + other_fees = 0 =>
        /\ with_fees_values = without_fees_values
        /\ "fee_impact" \in assigned => fee_impact = 0
        /\ Len(metrics) = 3 => metrics[3].value = 0 /\ metrics[3].delta = 0

C7_Witness ==
    /\ pc = "done"
    /\ management_fee + other_fees = 0
    /\ years = MaxYears
    /\ annual_contribution > 0
    /\ Len(metrics) = 3
    /\ with_fees_values[years + 1] > investment_amount * Scale


C12_CumulativeContributions ==
    /\ pc = "with_fees_loop" =>
         total_contributions
             = investment_amount + annual_contribution * iterations["with_fees"]
    /\ pc \in {"without_fees_loop", "metrics", "visualization", "chart_loop", "done"} =>
         total_contributions = investment_amount + annual_contribution * years

C12_Witness ==
    /\ pc = "done"
    /\ years = MaxYears
    /\ annual_contribution = MaxContribution
    /\ total_contributions = investment_amount + MaxContribution * MaxYears

\* C13: the cost of fees is the last without-fees value minus the last
\* with-fees value of the two series.
C13_FeeCost ==
    pc = "done" =>
        fee_impact = without_fees_values[years + 1] - with_fees_values[years + 1]

C13_Witness ==
    /\ pc = "done"
    /\ years = MaxYears
    /\ fee_impact > 0
    /\ fee_impact = without_fees_values[years + 1] - with_fees_values[years + 1]

\* C20: the fee is the sum of the two fees, the net return is the expected
\* return less that sum, and that net return is the rate the first year of
\* the with-fees value is grown by.
C20_SummedFee ==
    /\ total_fee = management_fee + other_fees
    /\ net_return = expected_return - total_fee
    /\ pc = "with_fees_loop" /\ iterations["with_fees"] = 1 =>
         value_with_fees =
             investment_amount * (Scale \div RateDen)
                 * (RateDen + expected_return - management_fee - other_fees)
             + annual_contribution * Scale

C20_Witness ==
    /\ pc = "with_fees_loop"
    /\ iterations["with_fees"] = 1
    /\ management_fee > 0
    /\ other_fees > 0
    /\ net_return = expected_return - management_fee - other_fees


\* C19: once the button is clicked the projection finishes; each of the
\* three loops has then run exactly `years` times, and within a run a loop's
\* count only ever advances by one.
C19_Terminates ==
    /\ (pc = "with_fees_loop") ~> (pc = "done")
    /\ [](pc = "done" =>
            \A l \in {"with_fees", "without_fees", "chart"} : iterations[l] = years)
    /\ [][pc' # "button" =>
            \A l \in {"with_fees", "without_fees", "chart"} :
                iterations'[l] \in {iterations[l], iterations[l] + 1}]_vars

C19_Witness ==
    /\ pc = "done"
    /\ years = MaxYears
    /\ iterations = [l \in {"with_fees", "without_fees", "chart"} |-> MaxYears]
    /\ Len(with_fees_values) = MaxYears + 1


\* C16: the results of a finished run are a function of the six widget
\* values alone, whatever runs came before it: two runs with the same inputs
\* show the same series and the same summary.
C16_Deterministic ==
    pc = "done" =>
        LET start == investment_amount * Scale
            net == expected_return - (management_fee + other_fees)
            withFees == Iterate(start, net, annual_contribution, years)
            withoutFees == Iterate(start, expected_return, annual_contribution, years)
            contributions == investment_amount + annual_contribution * years
        IN  /\ value_with_fees = withFees
            /\ value_without_fees = withoutFees
            /\ total_contributions = contributions
            /\ fee_impact = withoutFees - withFees
            /\ years_list = [i \in 1..(years + 1) |-> i - 1]
            /\ with_fees_values =
                 [i \in 1..(years + 1) |-> Iterate(start, net, annual_contribution, i - 1)]
            /\ without_fees_values =
                 [i \in 1..(years + 1) |->
                     Iterate(start, expected_return, annual_contribution, i - 1)]
            /\ metrics =
                 <<[label |-> "Value with Fees", value |-> RoundHalfEven(withFees, Scale)],
                   [label |-> "Value without Fees",
                    value |-> RoundHalfEven(withoutFees, Scale)],
                   [label |-> "Cost of Fees",
                    value |-> RoundHalfEven(withoutFees - withFees, Scale),
                    delta |-> RoundHalfEven(withoutFees - withFees,
                                            contributions * (Scale \div 1000))]>>

\* a run that finished after an earlier run had finished
C16_Witness ==
    /\ pc = "done"
    /\ runs >= 2
    /\ years = MaxYears
    /\ annual_contribution > 0
    /\ fee_impact > 0


\* C18 as stated: at principal 100000, contribution 12000, return 7%, fee 1%
\* and 20 periods the net return is 6% and the with-fees value after the
\* twentieth iteration of v = v * 1.06 + 12000 is approximately 745,295
\* (taken generously: within 1% of it, 737,842 to 752,748).
C18_Original ==
    /\ scenario.t = DefaultYears
    /\ scenario.management_fee + scenario.other_fees = 1
    => /\ scenario.net_return = 6
       /\ scenario.lo >= 737842 * RateDen
       /\ scenario.hi <= 752748 * RateDen

\* C18 as amended: with the same inputs the net return is 6% and the
\* with-fees value after the twentieth iteration lies between 762,140 and
\* 762,141 dollars (762,140.64).
C18_ScenarioA ==
    /\ scenario.t = DefaultYears
    /\ scenario.management_fee + scenario.other_fees = 1
    => /\ scenario.net_return = 6
       /\ scenario.lo <= scenario.hi
       /\ scenario.lo >= 762140 * RateDen
       /\ scenario.hi <= 762141 * RateDen

C18_Witness ==
    /\ scenario.t = DefaultYears
    /\ scenario.management_fee = 1
    /\ scenario.other_fees = 0
    /\ scenario.investment_amount = 100000
    /\ scenario.annual_contribution = 12000
    /\ scenario.expected_return = 7
    /\ scenario.lo < scenario.hi


\* C17: with two sessions running interleaved step by step, each session
\* ends with the results it would have computed alone.
C17_Independent ==
    /\ pc = "done" =>
         [value_with_fees |-> value_with_fees,
          value_without_fees |-> value_without_fees,
          total_contributions |-> total_contributions,
          fee_impact |-> fee_impact,
          with_fees_values |-> with_fees_values,
          without_fees_values |-> without_fees_values]
           = ResultAlone(investment_amount, annual_contribution, years,
                         expected_return, management_fee, other_fees)
    /\ peer.pc = "done" =>
         [value_with_fees |-> peer.value_with_fees,
          value_without_fees |-> peer.value_without_fees,
          total_contributions |-> peer.total_contributions,
          fee_impact |-> peer.fee_impact,
          with_fees_values |-> peer.with_fees_values,
          without_fees_values |-> peer.without_fees_values]
           = ResultAlone(peer.investment_amount, peer.annual_contribution, peer.years,
                         peer.expected_return, peer.management_fee, peer.other_fees)

\* both sessions in the middle of a loop at the same time, with different
\* inputs: neither has run from start to end without the other
C17_Witness ==
    /\ pc = "chart_loop"
    /\ iterations["chart"] = 1
    /\ years = MaxYears
    /\ peer.pc = "without_fees_loop"
    /\ peer.iterations["without_fees"] = 1
    /\ peer.years = MaxYears
    /\ peer.annual_contribution > annual_contribution
    /\ peer.expected_return # expected_return
    /\ peer.value_with_fees # value_with_fees

\* C21 as stated: the iterative projection and the closed form
\* principal * (1 + net/100) ** periods give different final values for the
\* same inputs.
C21_Original ==
    pc = "done" =>
        value_with_fees
            # ClosedForm(investment_amount,
                         expected_return - (management_fee + other_fees), years)

\* C21 as amended: the two give different final values exactly when the
\* contribution is positive, the iterative one being the larger; with a
\* contribution of 0 they give the same value.
C21_ClosedFormDiffers ==
    pc = "done" =>
        LET closed == ClosedForm(investment_amount,
                                 expected_return - (management_fee + other_fees), years)
        IN  /\ annual_contribution > 0 => value_with_fees > closed
            /\ annual_contribution = 0 => value_with_fees = closed

C21_Witness ==
    /\ pc = "done"
    /\ years = MaxYears
    /\ annual_contribution > 0
    /\ value_with_fees
         > ClosedForm(investment_amount, expected_return - (management_fee + other_fees),
                      years)

\* C23: after a run the two finals of the summary are the last entries of
\* the two charted series.
C23_SummaryMatchesChart ==
    pc = "done" =>
        /\ value_with_fees = with_fees_values[Len(with_fees_values)]
        /\ value_without_fees = without_fees_values[Len(without_fees_values)]

C23_Witness ==
    /\ pc = "done"
    /\ years = MaxYears
    /\ annual_contribution > 0
    /\ management_fee + other_fees > 0
    /\ value_with_fees = with_fees_values[MaxYears + 1]
    /\ value_with_fees # value_without_fees

\* C24: whenever the percentage fee_impact/total_contributions*100 is about
\* to be evaluated the divisor is positive, at least the smallest investment
\* the widget allows.
C24_DivisorPositive ==
    pc = "metrics" =>
        /\ total_contributions > 0
        /\ total_contributions >= MinInvestment

C24_Witness ==
    /\ pc = "metrics"
    /\ investment_amount = MinInvestment
    /\ annual_contribution = 0
    /\ total_contributions = MinInvestment

\* C25: no value of either series, and neither final of the summary, is
\* negative for any input of the widgets, a negative net return included.
C25_NonNegative ==
    /\ \A i \in 1..Len(with_fees_values) : with_fees_values[i] >= 0
    /\ \A i \in 1..Len(without_fees_values) : without_fees_values[i] >= 0
    /\ value_with_fees >= 0
    /\ value_without_fees >= 0
    /\ expected_return - (management_fee + other_fees) > -RateDen

C25_Witness ==
    /\ pc = "done"
    /\ years = MaxYears
    /\ expected_return - (management_fee + other_fees) = -4
    /\ annual_contribution = 0
    /\ with_fees_values[years + 1] > 0
    /\ with_fees_values[years + 1] < with_fees_values[1]

\* C22: meeting_prep_page writes the red-flags section (its subheader and
\* its six flags) once, whichever of the five meeting types is selected,
\* the two without a branch of their own included.
C22_RedFlagsAlways ==
    form.of = "meeting_prep_page" =>
        /\ \E i \in 1 .. Len(screen) - 1 :
            /\ screen[i] = [item |-> "subheader", text |-> "Watch Out For These Red Flags"]
            /\ screen[i + 1] = [item |-> "bullets", count |-> 6]
        /\ Len(SelectSeq(screen, LAMBDA e : e.item = "subheader"
                                            /\ e.text = "Watch Out For These Red Flags")) = 1

\* "Annual review" is selected: no branch is taken, the section is there
C22_Witness ==
    /\ form.of = "meeting_prep_page"
    /\ form.meeting_type = "Annual review"
    /\ Len(screen) = 4
    /\ screen[2] = [item |-> "subheader", text |-> "Watch Out For These Red Flags"]
    /\ screen[3] = [item |-> "bullets", count |-> 6]

\* C26: after a click on "Analyze Conflicts" with n of the 8 items checked,
\* exactly one outcome is shown: the no-conflicts message iff n = 0, Low
\* iff 1 <= n <= 2, Medium iff 3 <= n <= 4, High iff 5 <= n <= 8, and the
\* count shown is n.
C26_OneOutcome ==
    (form.of = "conflict_checker_page" /\ form.clicked = "Analyze Conflicts") =>
        LET n == Cardinality(form.checked)
            outcomes == SelectSeq(screen, LAMBDA e : e.item \in {"risk", "box"})
            Shown(kind, text) == outcomes[1].item = kind /\ outcomes[1].text = text
        IN  /\ Len(outcomes) = 1
            /\ Shown("box", "No conflicts identified from the checklist") <=> n = 0
            /\ Shown("risk", "Low Risk Level") <=> (1 <= n /\ n <= 2)
            /\ Shown("risk", "Medium Risk Level") <=> (3 <= n /\ n <= 4)
            /\ Shown("risk", "High Risk Level") <=> (5 <= n /\ n <= 8)
            /\ n >= 1 => (outcomes[1].item = "risk" /\ outcomes[1].count = n)

\* four items are checked and analysed: Medium, with the count 4
C26_Witness ==
    /\ form.of = "conflict_checker_page"
    /\ form.clicked = "Analyze Conflicts"
    /\ Cardinality(form.checked) = 4
    /\ \E i \in DOMAIN screen :
        screen[i].item = "risk" /\ screen[i].text = "Medium Risk Level" /\ screen[i].count = 4

\* C27: with n >= 1 items checked, the recommendations listed are the first
\* min(n + 1, 5) of the five, in order: at least 2, at most 5.
C27_RecommendationPrefix ==
    (/\ form.of = "conflict_checker_page"
     /\ form.clicked = "Analyze Conflicts"
     /\ Cardinality(form.checked) >= 1) =>
        LET n == Cardinality(form.checked)
            k == IF n + 1 <= 5 THEN n + 1 ELSE 5
            lists == SelectSeq(screen, LAMBDA e : e.item = "actions")
        IN  /\ Len(lists) = 1
            /\ Len(lists[1].list) = k
            /\ \A i \in 1 .. k : lists[1].list[i] = Recommendations[i]
            /\ 2 <= Len(lists[1].list) /\ Len(lists[1].list) <= 5

\* one item is checked and analysed: the first two recommendations
C27_Witness ==
    /\ form.of = "conflict_checker_page"
    /\ form.clicked = "Analyze Conflicts"
    /\ Cardinality(form.checked) = 1
    /\ \E i \in DOMAIN screen :
        /\ screen[i].item = "actions"
        /\ screen[i].list = <<"Request full disclosure of compensation structure",
                              "Ask about fiduciary responsibility">>

\* C28: with n of the 10 annuity flags checked, no risk box is shown iff
\* n = 0, SOME CONCERNS iff 1 <= n <= 2, MEDIUM RISK iff 3 <= n <= 4, HIGH
\* RISK SITUATION iff n >= 5, and never two boxes.
C28_AnnuityRisk ==
    form.of = "sales_tactics_page" =>
        LET n == Cardinality(form.flags)
            boxes == SelectSeq(screen, LAMBDA e : e.item = "risk")
            Shown(text) == boxes # <<>> /\ boxes[1].text = text
        IN  /\ Len(boxes) <= 1
            /\ boxes = <<>> <=> n = 0
            /\ Shown("SOME CONCERNS") <=> (1 <= n /\ n <= 2)
            /\ Shown("MEDIUM RISK") <=> (3 <= n /\ n <= 4)
            /\ Shown("HIGH RISK SITUATION") <=> n >= 5

\* five flags are checked: HIGH RISK SITUATION
C28_Witness ==
    /\ form.of = "sales_tactics_page"
    /\ Cardinality(form.flags) = 5
    /\ \E i \in DOMAIN screen :
        /\ screen[i].item = "risk"
        /\ screen[i].text = "HIGH RISK SITUATION"
        /\ screen[i].count = 5

\* C29: the option chosen in the sidebar makes main call exactly one page
\* function, and no other option makes it call that one.
C29_OnePageEach ==
    /\ Len(called) = 1
    /\ \A i \in DOMAIN NavigationOptions :
        NavigationOptions[i] # page => Dispatch(NavigationOptions[i]) # called
    /\ Cardinality({Dispatch(NavigationOptions[i]) : i \in DOMAIN NavigationOptions}) = 8

\* the last option is chosen: meeting_prep_page and nothing else is called
C29_Witness ==
    /\ page = "Meeting Prep Tool"
    /\ called = <<"meeting_prep_page">>

\* C30: in analyze_fees total_cost is investment_amount * 2.45 / 100 *
\* years, and the three cost metrics are written iff investment_amount >=
\* 100000: all three from there on, none below.  Costs are in
\* ten-thousandths of a dollar.
C30_LinearCostAndThreshold ==
    (form.of = "document_analysis_page" /\ form.clicked = "Analyze Fees") =>
        LET locals == SelectSeq(screen, LAMBDA e : e.item = "locals")
            shown == SelectSeq(screen, LAMBDA e : e.item = "metric")
        IN  /\ Len(locals) = 1
            /\ locals[1].investment_amount = form.investment_amount
            /\ locals[1].years = form.years
            /\ locals[1].total_cost = form.investment_amount * 245 * form.years
            /\ form.investment_amount >= 100000 <=>
                   /\ Len(shown) = 3
                   /\ shown[1].text = "Your Annual Cost"
                   /\ shown[2].text = "Your Total Cost"
                   /\ shown[3].text = "Advisor's Annual Pay"
            /\ form.investment_amount < 100000 => shown = <<>>
            /\ shown # <<>> =>
                   shown[2].value =
                       <<RoundHalfEven(form.investment_amount * 245 * form.years, 10000)>>

\* 100000 dollars over 30 years: 73,500 dollars in all, the metrics written
C30_Witness ==
    /\ form.of = "document_analysis_page"
    /\ form.clicked = "Analyze Fees"
    /\ form.investment_amount = 100000
    /\ form.years = 30
    /\ \E i \in DOMAIN screen :
        screen[i] = [item |-> "metric", text |-> "Your Total Cost", value |-> <<73500>>]

====
